---- MODULE Spec2Model ----
(***************************************************************************)
(* A model of the DNS server in src/app/main.go: the wire codec            *)
(* (Header/Question/RR serialize, parseDNSMessage, parseName), the         *)
(* response builders (generateResponse, generateRequest) and the receive   *)
(* loop of main.                                                           *)
(*                                                                         *)
(* Representation.  A byte is a number in 0..255, a []byte and a Go string *)
(* are sequences of bytes (the '.' of a domain name is byte 46).  Reader   *)
(* offsets are 0-based as in the source: the byte at offset p of buf is    *)
(* buf[p+1].  A uint32 (the TTL) is the pair of its two 16-bit halves.      *)
(***************************************************************************)
EXTENDS Integers, Sequences, FiniteSets, TLC

VARIABLES
  resolverArg,   \* the command line: whether -resolver was given, and its value
  resolverFlag,  \* *resolverFlag after flag.Parse()
  pc,            \* where main is: "recv" (reading the next client datagram), "upstream"
                 \* (reading an upstream reply), or dead: "overflow" (fatal stack
                 \* overflow in parseName), "panic" (nil dereference at conn.Write)
  datagram,      \* buf[:size] of the client datagram being handled
  dnsRequest,    \* the message parseDNSMessage returned for it
  reqErr,        \* whether parseDNSMessage returned an error for it (discarded by main)
  response,      \* the response being built / last sent
  qi,            \* index of the question whose upstream exchange is pending
  upstream,      \* the upstream exchange: "idle", "query" (sub-query sent, reply awaited),
                 \* "lost" (no reply will come)
  subQuery,      \* bytes of the last sub-query written to the upstream
  nQueries,      \* sub-queries written to the upstream for this datagram
  replies,       \* per question handled so far: what parseDNSMessage made of the reply
  nSent,         \* responses written to the client for this datagram
  sentWire,      \* bytes of the last response written to the client
  ckind,         \* codec harness: "msg" (a message is serialized, then parsed) or "raw"
  cpc,           \* codec harness: "msg", "wire", "parsed"
  cmsg,          \* codec harness: the message to serialize
  cwire,         \* codec harness: the buffer to parse
  cparsed,       \* codec harness: result of parseDNSMessage(cwire)
  cname          \* codec harness: result of readName on a reader at offset 12 of cwire

vars == <<resolverArg, resolverFlag, pc, datagram, dnsRequest, reqErr, response, qi, upstream,
          subQuery, nQueries, replies, nSent, sentWire,
          ckind, cpc, cmsg, cwire, cparsed, cname>>

serverVars == <<resolverArg, resolverFlag, pc, datagram, dnsRequest, reqErr, response, qi, upstream,
                subQuery, nQueries, replies, nSent, sentWire>>

codecVars == <<ckind, cpc, cmsg, cwire, cparsed, cname>>

----------------------------------------------------------------------------
(* Arithmetic on fixed-width unsigned integers *)

Min(a, b) == IF a < b THEN a ELSE b

RECURSIVE Pow2(_)
Pow2(n) == IF n = 0 THEN 1 ELSE 2 * Pow2(n - 1)

\* x << n on a uint8
Shl8(x, n) == (x * Pow2(n)) % 256

\* x >> n
Shr(x, n) == x \div Pow2(n)

RECURSIVE BitOr(_, _)
BitOr(a, b) ==
  IF a = 0 THEN b
  ELSE IF b = 0 THEN a
  ELSE (IF a % 2 = 1 \/ b % 2 = 1 THEN 1 ELSE 0) + 2 * BitOr(a \div 2, b \div 2)

\* binary.BigEndian.PutUint16 / binary.Write of a uint16
PutUint16(v) == << (v \div 256) % 256, v % 256 >>

\* A uint32 is the pair of its high and low 16 bits (TLC's integers have 32 bits, sign
\* included).
U32(hi, lo) == << hi, lo >>

\* binary.Write of a uint32
PutUint32(v) == PutUint16(v[1]) \o PutUint16(v[2])

\* binary.BigEndian.Uint16 of the two bytes at offset p
Uint16At(buf, p) == buf[p + 1] * 256 + buf[p + 2]

Uint32At(buf, p) == U32(Uint16At(buf, p), Uint16At(buf, p + 2))

Zeros(n) == [i \in 1..n |-> 0]

----------------------------------------------------------------------------
(* Go strings: strings.Split(s, ".") and strings.Join(parts, ".") *)

Dot == 46

RECURSIVE SplitFrom(_, _, _)
\* the labels of s from index i on, cur being the label under construction
SplitFrom(s, i, cur) ==
  IF i > Len(s) THEN << cur >>
  ELSE IF s[i] = Dot THEN << cur >> \o SplitFrom(s, i + 1, << >>)
  ELSE SplitFrom(s, i + 1, Append(cur, s[i]))

Split(s) == SplitFrom(s, 1, << >>)

RECURSIVE Join(_)
Join(parts) ==
  IF Len(parts) = 0 THEN << >>
  ELSE IF Len(parts) = 1 THEN parts[1]
  ELSE parts[1] \o << Dot >> \o Join(Tail(parts))

----------------------------------------------------------------------------
(* The message types *)

ZeroHeader ==
  [ID |-> 0, QR |-> 0, OPCODE |-> 0, AA |-> 0, TC |-> 0, RD |-> 0, RA |-> 0, Z |-> 0,
   RCODE |-> 0, QDCOUNT |-> 0, ANCOUNT |-> 0, NSCOUNT |-> 0, ARCOUNT |-> 0]

ZeroMessage == [Header |-> ZeroHeader, Questions |-> << >>, Answer |-> << >>]

newRR(name) ==
  [Name |-> name, Type |-> 1, Class |-> 1, TTL |-> U32(0, 60), Length |-> 4, Data |-> << 8, 8, 8, 8 >>]

newQuestion(name) == [Name |-> name, Type |-> 1, Class |-> 1]

----------------------------------------------------------------------------
(* Serialization *)

RECURSIVE SerializeLabels(_)
SerializeLabels(labels) ==
  IF Len(labels) = 0 THEN << >>
  ELSE << Len(labels[1]) % 256 >> \o labels[1] \o SerializeLabels(Tail(labels))

serializeDomain(domain) == SerializeLabels(Split(domain)) \o << 0 >>

QuestionSerialize(q) ==
  serializeDomain(q.Name) \o PutUint16(q.Type) \o PutUint16(q.Class)

RRSerialize(r) ==
  serializeDomain(r.Name) \o PutUint16(r.Type) \o PutUint16(r.Class) \o PutUint32(r.TTL)
    \o PutUint16(Len(r.Data) % 65536) \o r.Data

HeaderSerialize(h) ==
  PutUint16(h.ID)
    \o << BitOr(BitOr(BitOr(BitOr(Shl8(h.QR, 7), Shl8(h.OPCODE, 3)), Shl8(h.AA, 2)),
                      Shl8(h.TC, 1)), h.RD),
          BitOr(BitOr(Shl8(h.RA, 7), Shl8(h.Z, 4)), h.RCODE) >>
    \o PutUint16(h.QDCOUNT) \o PutUint16(h.ANCOUNT) \o PutUint16(h.NSCOUNT)
    \o PutUint16(h.ARCOUNT)

RECURSIVE SerializeQuestions(_)
SerializeQuestions(qs) ==
  IF Len(qs) = 0 THEN << >> ELSE QuestionSerialize(qs[1]) \o SerializeQuestions(Tail(qs))

RECURSIVE SerializeAnswers(_)
SerializeAnswers(rs) ==
  IF Len(rs) = 0 THEN << >> ELSE RRSerialize(rs[1]) \o SerializeAnswers(Tail(rs))

MessageSerialize(m) ==
  HeaderSerialize(m.Header) \o SerializeQuestions(m.Questions) \o SerializeAnswers(m.Answer)

----------------------------------------------------------------------------
(* bytes.Reader and encoding/binary as the parser uses them *)

\* binary.Read of an n-byte integer from a reader at offset pos: io.ReadFull fails
\* (EOF / ErrUnexpectedEOF) unless all n bytes are there.
BinaryReadOk(buf, pos, n) == pos + n <= Len(buf)

\* reader.Read(b) with len(b) = n at offset pos: io.EOF when the reader is at or past
\* the end (also for n = 0), otherwise it copies what there is, with no error; the rest
\* of b keeps the zeros make() gave it.
ReaderRead(buf, pos, n) ==
  IF pos >= Len(buf) THEN [err |-> TRUE, data |-> Zeros(n), pos |-> pos]
  ELSE LET k == Min(n, Len(buf) - pos)
       IN [err |-> FALSE, data |-> SubSeq(buf, pos + 1, pos + k) \o Zeros(n - k),
           pos |-> pos + k]

----------------------------------------------------------------------------
(* parseName.  The result is [st, name, pos]: st is "ok", "err" (an error is     *)
(* returned) or "overflow": the recursion never returns, which the Go runtime    *)
(* ends with the fatal error "stack overflow" (the process dies).  active is the *)
(* set of offsets of the parseName calls now on the stack: a call at an offset   *)
(* that is already active reads the same bytes again and recurses forever.       *)

NameErr(pos) == [st |-> "err", name |-> << >>, pos |-> pos]

RECURSIVE parseNameLoop(_, _, _, _)
parseNameLoop(buf, pos, nameParts, active) ==
  IF ~BinaryReadOk(buf, pos, 1) THEN NameErr(pos)
  ELSE LET length == buf[pos + 1]
       IN IF length >= 192
          THEN IF ~BinaryReadOk(buf, pos + 1, 1) THEN NameErr(pos + 1)
               ELSE LET newOffset == (length % 64) * 256 + buf[pos + 2]
                    IN IF newOffset \in active
                       THEN [st |-> "overflow", name |-> << >>, pos |-> newOffset]
                       ELSE LET part == parseNameLoop(buf, newOffset, << >>,
                                                      active \cup {newOffset})
                            IN IF part.st # "ok" THEN part
                               ELSE [st |-> "ok",
                                     name |-> Join(Append(nameParts, part.name)),
                                     pos |-> part.pos]
          ELSE IF length = 0
          THEN [st |-> "ok", name |-> Join(nameParts), pos |-> pos + 1]
          ELSE LET r == ReaderRead(buf, pos + 1, length)
               IN IF r.err THEN NameErr(r.pos)
                  ELSE parseNameLoop(buf, r.pos, Append(nameParts, r.data), active)

parseName(buf, offset) == parseNameLoop(buf, offset, << >>, {offset})

\* readName on a reader positioned at pos
readName(buf, pos) == parseName(buf, pos)

----------------------------------------------------------------------------
(* parseHeader and parseDNSMessage.  parseDNSMessage returns [st, msg]: st is    *)
(* "ok" (nil error), "err" (an error, with the message as far as it was decoded) *)
(* or "overflow" (parseName never returned).                                     *)

parseHeader(data) ==
  IF Len(data) < 12 THEN [err |-> TRUE, header |-> ZeroHeader]
  ELSE LET flags == Uint16At(data, 2)
       IN [err |-> FALSE,
           header |->
             [ID |-> Uint16At(data, 0),
              QR |-> Shr(flags, 15) % 2,
              OPCODE |-> Shr(flags, 11) % 16,
              AA |-> Shr(flags, 10) % 2,
              TC |-> Shr(flags, 9) % 2,
              RD |-> Shr(flags, 8) % 2,
              RA |-> Shr(flags, 7) % 2,
              Z |-> Shr(flags, 4) % 8,
              RCODE |-> flags % 16,
              QDCOUNT |-> Uint16At(data, 4),
              ANCOUNT |-> Uint16At(data, 6),
              NSCOUNT |-> Uint16At(data, 8),
              ARCOUNT |-> Uint16At(data, 10)]]

\* The answer loop from iteration i on, the reader at pos.
RECURSIVE ParseAnswers(_, _, _, _)
ParseAnswers(data, pos, i, msg) ==
  IF i >= msg.Header.ANCOUNT THEN [st |-> "ok", msg |-> msg]
  ELSE LET n == readName(data, pos)
       IN IF n.st # "ok" THEN [st |-> n.st, msg |-> msg]
          ELSE IF ~BinaryReadOk(data, n.pos, 2) THEN [st |-> "err", msg |-> msg]
          ELSE IF ~BinaryReadOk(data, n.pos + 2, 2) THEN [st |-> "err", msg |-> msg]
          ELSE IF ~BinaryReadOk(data, n.pos + 4, 4) THEN [st |-> "err", msg |-> msg]
          ELSE IF ~BinaryReadOk(data, n.pos + 8, 2) THEN [st |-> "err", msg |-> msg]
          ELSE LET length == Uint16At(data, n.pos + 8)
                   d == ReaderRead(data, n.pos + 10, length)
                   rr == [Name |-> n.name,
                          Type |-> Uint16At(data, n.pos),
                          Class |-> Uint16At(data, n.pos + 2),
                          TTL |-> Uint32At(data, n.pos + 4),
                          Length |-> length,
                          Data |-> d.data]
               IN IF d.err THEN [st |-> "err", msg |-> msg]
                  ELSE ParseAnswers(data, d.pos, i + 1,
                                    [msg EXCEPT !.Answer = Append(@, rr)])

\* The question loop from iteration i on, the reader at pos; then the answer loop.
RECURSIVE ParseQuestions(_, _, _, _)
ParseQuestions(data, pos, i, msg) ==
  IF i >= msg.Header.QDCOUNT THEN ParseAnswers(data, pos, 0, msg)
  ELSE LET n == readName(data, pos)
       IN IF n.st # "ok" THEN [st |-> n.st, msg |-> msg]
          ELSE IF ~BinaryReadOk(data, n.pos, 2) THEN [st |-> "err", msg |-> msg]
          ELSE IF ~BinaryReadOk(data, n.pos + 2, 2) THEN [st |-> "err", msg |-> msg]
          ELSE LET q == [Name |-> n.name,
                         Type |-> Uint16At(data, n.pos),
                         Class |-> Uint16At(data, n.pos + 2)]
               IN ParseQuestions(data, n.pos + 4, i + 1,
                                 [msg EXCEPT !.Questions = Append(@, q)])

parseDNSMessage(data) ==
  LET hdr == parseHeader(data)
  IN IF hdr.err THEN [st |-> "err", msg |-> ZeroMessage]
     ELSE ParseQuestions(data, 12, 0, [ZeroMessage EXCEPT !.Header = hdr.header])

----------------------------------------------------------------------------
(* generateResponse and generateRequest *)

RECURSIVE EchoQuestions(_)
EchoQuestions(qs) ==
  IF Len(qs) = 0 THEN << >> ELSE << newQuestion(qs[1].Name) >> \o EchoQuestions(Tail(qs))

RECURSIVE SynthAnswers(_)
SynthAnswers(qs) ==
  IF Len(qs) = 0 THEN << >> ELSE << newRR(qs[1].Name) >> \o SynthAnswers(Tail(qs))

\* generateResponse with the RCODE left at 0 whatever the OPCODE
generateResponseRcodeZero(req) ==
  LET a == SynthAnswers(req.Questions)
      q == EchoQuestions(req.Questions)
  IN [Header |->
        [ID |-> req.Header.ID, QR |-> 1, OPCODE |-> req.Header.OPCODE, AA |-> 0, TC |-> 0,
         RD |-> req.Header.RD, RA |-> req.Header.RA, Z |-> 0, RCODE |-> 0,
         QDCOUNT |-> Len(q) % 65536, ANCOUNT |-> Len(a) % 65536,
         NSCOUNT |-> 0, ARCOUNT |-> 0],
      Questions |-> q,
      Answer |-> a]

generateResponse(req) ==
  LET responseRCODE == IF req.Header.OPCODE = 0 THEN 0 ELSE 4
      a == SynthAnswers(req.Questions)
      q == EchoQuestions(req.Questions)
  IN [Header |->
        [ID |-> req.Header.ID, QR |-> 1, OPCODE |-> req.Header.OPCODE, AA |-> 0, TC |-> 0,
         RD |-> req.Header.RD, RA |-> req.Header.RA, Z |-> 0, RCODE |-> responseRCODE,
         QDCOUNT |-> Len(q) % 65536, ANCOUNT |-> Len(a) % 65536,
         NSCOUNT |-> 0, ARCOUNT |-> 0],
      Questions |-> q,
      Answer |-> a]

generateRequest(originalRequest, singleQuestion) ==
  [Header |->
     [ID |-> originalRequest.Header.ID, QR |-> 0, OPCODE |-> originalRequest.Header.OPCODE,
      AA |-> 0, TC |-> 0, RD |-> originalRequest.Header.RD,
      RA |-> originalRequest.Header.RA, Z |-> 0, RCODE |-> 0,
      QDCOUNT |-> 1, ANCOUNT |-> 0, NSCOUNT |-> 0, ARCOUNT |-> 0],
   Questions |-> << singleQuestion >>,
   Answer |-> << >>]

----------------------------------------------------------------------------
(* Inputs of the codec harness *)

MaxQuestions == 1
MaxAnswers == 2

NameRoot == << >>
NameA == << 97 >>
NameAbC == << 97, 98, 46, 99 >>

SeqsUpTo(S, n) == UNION {[1..k -> S] : k \in 0..n}

CodecQuestions ==
  {[Name |-> n, Type |-> t, Class |-> 1] : n \in {NameRoot, NameA, NameAbC}, t \in {1, 28}}

CodecRecords ==
  {[Name |-> n, Type |-> 1, Class |-> 1, TTL |-> U32(0, 60), Length |-> Len(d), Data |-> d] :
     n \in {NameRoot, NameA}, d \in {<< >>, << 8, 8, 8, 8 >>}}

CodecHeaders ==
  {[ZeroHeader EXCEPT !.ID = 4660, !.RD = 1],
   [ID |-> 65535, QR |-> 1, OPCODE |-> 15, AA |-> 1, TC |-> 1, RD |-> 1, RA |-> 1, Z |-> 5,
    RCODE |-> 15, QDCOUNT |-> 0, ANCOUNT |-> 0, NSCOUNT |-> 0, ARCOUNT |-> 0]}

\* The well-formed messages: the counts are those of the sections.
CodecMessages ==
  {[Header |-> [h EXCEPT !.QDCOUNT = Len(qs), !.ANCOUNT = Len(as)],
    Questions |-> qs, Answer |-> as] :
     h \in CodecHeaders, qs \in SeqsUpTo(CodecQuestions, MaxQuestions),
     as \in SeqsUpTo(CodecRecords, MaxAnswers)}

\* A compression pointer to offset t
Pointer(t) == << 192 + ((t \div 256) % 64), t % 256 >>

WireHeader(qd, an) ==
  HeaderSerialize([ZeroHeader EXCEPT !.ID = 4660, !.RD = 1, !.QDCOUNT = qd, !.ANCOUNT = an])

MaxTarget == 27

\* One question whose name at offset 12 is a pointer to t1, followed at offset 14 by a
\* pointer to t2 and a type and class: t1 = 12 is a pointer to itself, t1 = 14 with
\* t2 = 12 a cycle of two.
CyclePointerBuffers ==
  {WireHeader(1, 0) \o Pointer(t1) \o Pointer(t2) \o << 0, 1, 0, 1 >> :
     t1 \in 12..15, t2 \in 12..15}

\* One question whose name is the label "b" then, at offset 14, a pointer to t; its
\* type 28 and class 1 at offset 16; the name "a" stored at offset 20.
ForwardPointerBuffers ==
  {WireHeader(1, 0) \o << 1, 98 >> \o Pointer(t) \o << 0, 28, 0, 1 >> \o << 1, 97, 0 >> :
     t \in 0..MaxTarget}

\* Two questions: "a" type 1 class 1 at offset 12, then at offset 19 a pointer to t
\* with type 28 and class 1.
BackwardPointerBuffers ==
  {WireHeader(2, 0) \o << 1, 97, 0, 0, 1, 0, 1 >> \o Pointer(t) \o << 0, 28, 0, 1 >> :
     t \in 0..MaxTarget}

\* A well-formed message with one question and one record of four data bytes, no
\* root name: every proper prefix of its bytes lacks part of a declared field.
SampleMessage ==
  [Header |-> [ZeroHeader EXCEPT !.ID = 4660, !.QR = 1, !.QDCOUNT = 1, !.ANCOUNT = 1],
   Questions |-> << [Name |-> NameA, Type |-> 1, Class |-> 1] >>,
   Answer |-> << [Name |-> NameAbC, Type |-> 1, Class |-> 1, TTL |-> U32(0, 60), Length |-> 4,
                  Data |-> << 1, 2, 3, 4 >>] >>]

TruncatedBuffers ==
  LET w == MessageSerialize(SampleMessage)
  IN {SubSeq(w, 1, k) : k \in 0..(Len(w) - 1)}

RawBuffers ==
  CyclePointerBuffers \cup ForwardPointerBuffers \cup BackwardPointerBuffers
    \cup TruncatedBuffers

NoName == [st |-> "none", name |-> << >>, pos |-> 0]
NoParse == [st |-> "none", msg |-> ZeroMessage]

----------------------------------------------------------------------------
(* The codec harness: serialize a message and parse the bytes, or parse raw bytes *)

CodecOff ==
  /\ ckind = "off" /\ cpc = "off" /\ cmsg = ZeroMessage /\ cwire = << >>
  /\ cparsed = NoParse /\ cname = NoName

ServerOff ==
  /\ resolverArg = [given |-> TRUE, value |-> ""] /\ resolverFlag = "" /\ pc = "off" /\ datagram = << >> /\ dnsRequest = ZeroMessage
  /\ reqErr = FALSE /\ response = ZeroMessage /\ qi = 0 /\ upstream = "idle"
  /\ subQuery = << >> /\ nQueries = 0 /\ replies = << >> /\ nSent = 0 /\ sentWire = << >>

CodecInit ==
  /\ ServerOff
  /\ cparsed = NoParse
  /\ cname = NoName
  /\ \/ /\ ckind = "msg" /\ cpc = "msg" /\ cmsg \in CodecMessages /\ cwire = << >>
     \/ /\ ckind = "raw" /\ cpc = "wire" /\ cmsg = ZeroMessage /\ cwire \in RawBuffers

Serialize ==
  /\ cpc = "msg"
  /\ cwire' = MessageSerialize(cmsg)
  /\ cpc' = "wire"
  /\ UNCHANGED <<ckind, cmsg, cparsed, cname>>
  /\ UNCHANGED serverVars

Parse ==
  /\ cpc = "wire"
  /\ cparsed' = parseDNSMessage(cwire)
  /\ cname' = readName(cwire, 12)
  /\ cpc' = "parsed"
  /\ UNCHANGED <<ckind, cmsg, cwire>>
  /\ UNCHANGED serverVars

CodecNext == Serialize \/ Parse

CodecSpec == CodecInit /\ [][CodecNext]_vars

----------------------------------------------------------------------------
(* Inputs of the server: command lines, client datagrams, upstream replies *)

BufSize == 512

ResolverDefault == "."

ResolverArgs ==
  {[given |-> FALSE, value |-> ""]}
    \cup {[given |-> TRUE, value |-> v] : v \in {"", "127.0.0.1:5353", "nohost"}}

\* flag.String("resolver", ".", ...) after flag.Parse()
FlagValue(arg) == IF arg.given THEN arg.value ELSE ResolverDefault

\* Whether net.ResolveUDPAddr("udp", address) succeeds, so that net.DialUDP returns a
\* socket: an address needs a host and a port.  Otherwise addr is nil, DialUDP returns
\* a nil *UDPConn (both errors are discarded), and conn.Write, a method promoted from
\* the embedded conn, dereferences the nil pointer: a run-time panic.
ResolveUDPAddrOk(address) == address \in {"127.0.0.1:5353"}

ServerMaxQuestions == 2

RequestQuestions ==
  {[Name |-> NameA, Type |-> 1, Class |-> 1], [Name |-> NameAbC, Type |-> 28, Class |-> 1]}

RequestHeaders ==
  {[ZeroHeader EXCEPT !.ID = 4660, !.RD = 1],
   [ZeroHeader EXCEPT !.ID = 4660, !.OPCODE = 1, !.RA = 1, !.Z = 5]}

Requests ==
  {[Header |-> [h EXCEPT !.QDCOUNT = Len(qs)], Questions |-> qs, Answer |-> << >>] :
     h \in RequestHeaders, qs \in SeqsUpTo(RequestQuestions, ServerMaxQuestions)}

TruncatedRequests ==
  LET w == WireHeader(2, 0) \o << 1, 97, 0, 0, 1, 0, 1 >> \o << 1, 98, 0, 0, 28, 0, 1 >>
  IN {SubSeq(w, 1, k) : k \in {5, 13, 17, 20, 25}}

\* Well-formed requests, truncated ones, one whose second name is a pointer to the
\* first, and one whose name is a pointer to itself.
ClientDatagrams ==
  {MessageSerialize(m) : m \in Requests}
    \cup TruncatedRequests
    \cup {WireHeader(2, 0) \o << 1, 97, 0, 0, 1, 0, 1 >> \o Pointer(12) \o << 0, 28, 0, 1 >>,
          WireHeader(1, 0) \o Pointer(12) \o << 0, 1, 0, 1 >>}

ReplyHeader(qd, an) ==
  HeaderSerialize([ZeroHeader EXCEPT !.ID = 4660, !.QR = 1, !.RD = 1, !.RA = 1,
                                     !.QDCOUNT = qd, !.ANCOUNT = an])

ReplyQuestion == << 1, 97, 0, 0, 1, 0, 1 >>

ReplyRecord(d) ==
  RRSerialize([Name |-> NameA, Type |-> 1, Class |-> 1, TTL |-> U32(0, 300), Length |-> Len(d),
               Data |-> d])

\* What the upstream may send back: one answer; none; two answers; a first answer
\* followed by a record whose name points past the buffer; a question whose name
\* points past the buffer; an answer whose name is a pointer to the question's name;
\* a name that points to itself.
UpstreamReplies ==
  {ReplyHeader(1, 1) \o ReplyQuestion \o ReplyRecord(<< 1, 2, 3, 4 >>),
   ReplyHeader(1, 0) \o ReplyQuestion,
   ReplyHeader(1, 2) \o ReplyQuestion \o ReplyRecord(<< 1, 2, 3, 4 >>)
     \o ReplyRecord(<< 5, 6, 7, 8 >>),
   ReplyHeader(1, 2) \o ReplyQuestion \o ReplyRecord(<< 1, 2, 3, 4 >>) \o Pointer(600),
   ReplyHeader(1, 1) \o Pointer(600),
   ReplyHeader(1, 1) \o ReplyQuestion \o Pointer(12)
     \o << 0, 1, 0, 1, 0, 0, 1, 44, 0, 4, 1, 2, 3, 4 >>,
   ReplyHeader(1, 0) \o Pointer(12)}

\* buffer := make([]byte, 512) after conn.ReadFromUDP(buffer) received r
Received(r) ==
  IF Len(r) >= BufSize THEN SubSeq(r, 1, BufSize) ELSE r \o Zeros(BufSize - Len(r))

----------------------------------------------------------------------------
(* The receive loop of main *)

Init ==
  /\ CodecOff
  /\ resolverArg \in ResolverArgs
  /\ resolverFlag = FlagValue(resolverArg)
  /\ pc = "recv"
  /\ datagram = << >>
  /\ dnsRequest = ZeroMessage
  /\ reqErr = FALSE
  /\ response = ZeroMessage
  /\ qi = 0
  /\ upstream = "idle"
  /\ subQuery = << >>
  /\ nQueries = 0
  /\ replies = << >>
  /\ nSent = 0
  /\ sentWire = << >>

\* udpConn.WriteToUDP(response.serialize(), source), then back to ReadFromUDP
SendResponse(resp) ==
  /\ response' = resp
  /\ sentWire' = MessageSerialize(resp)
  /\ nSent' = nSent + 1
  /\ pc' = "recv"
  /\ upstream' = "idle"

\* The loop body for question i of req up to the blocking read: generateRequest,
\* conn.Write(req.serialize()), conn.ReadFromUDP(buffer).
SendSubQuery(req, i, sentSoFar) ==
  /\ qi' = i
  /\ IF ResolveUDPAddrOk(resolverFlag)
     THEN /\ subQuery' = MessageSerialize(generateRequest(req, req.Questions[i]))
          /\ nQueries' = sentSoFar + 1
          /\ upstream' = "query"
          /\ pc' = "upstream"
     ELSE /\ subQuery' = << >>
          /\ nQueries' = sentSoFar
          /\ upstream' = "idle"
          /\ pc' = "panic"

\* udpConn.ReadFromUDP returns a datagram: lines 335-367 up to the first blocking read
\* of an upstream reply, or to the end of the iteration.
Receive(d) ==
  /\ pc = "recv"
  /\ LET data == SubSeq(d, 1, Min(Len(d), BufSize))
         p == parseDNSMessage(data)
         local == generateResponse(p.msg)
     IN /\ datagram' = data
        /\ replies' = << >>
        /\ IF p.st = "overflow"
           THEN /\ pc' = "overflow"
                /\ reqErr' = TRUE
                /\ dnsRequest' = ZeroMessage
                /\ response' = ZeroMessage
                /\ qi' = 0 /\ upstream' = "idle" /\ subQuery' = << >> /\ nQueries' = 0
                /\ nSent' = 0 /\ sentWire' = << >>
           ELSE /\ dnsRequest' = p.msg
                /\ reqErr' = (p.st = "err")
                /\ IF resolverFlag = ""
                   THEN /\ response' = local
                        /\ sentWire' = MessageSerialize(local)
                        /\ nSent' = 1
                        /\ pc' = "recv"
                        /\ qi' = 0 /\ upstream' = "idle" /\ subQuery' = << >>
                        /\ nQueries' = 0
                   ELSE IF Len(p.msg.Questions) = 0
                   THEN /\ response' = [local EXCEPT !.Answer = << >>, !.Header.ANCOUNT = 0]
                        /\ sentWire' = MessageSerialize(response')
                        /\ nSent' = 1
                        /\ pc' = "recv"
                        /\ qi' = 0 /\ upstream' = "idle" /\ subQuery' = << >>
                        /\ nQueries' = 0
                   ELSE /\ response' = [local EXCEPT !.Answer = << >>]
                        /\ sentWire' = << >>
                        /\ nSent' = 0
                        /\ SendSubQuery(p.msg, 1, 0)
  /\ UNCHANGED <<resolverArg, resolverFlag>>
  /\ UNCHANGED codecVars

\* Lines 360-365 once conn.ReadFromUDP has returned with buffer holding buf: the reply is
\* parsed, its first answer (if any) appended, and the loop goes on to the next question
\* or ends with the response being sent.
AfterRead(buf, readErr) ==
  LET p == parseDNSMessage(buf)
      answers == IF Len(p.msg.Answer) > 0
                 THEN Append(response.Answer, p.msg.Answer[1])
                 ELSE response.Answer
  IN IF p.st = "overflow"
     THEN /\ pc' = "overflow"
          /\ UNCHANGED <<response, qi, upstream, subQuery, nQueries, replies, nSent, sentWire>>
     ELSE /\ replies' = Append(replies, [readErr |-> readErr, st |-> p.st,
                                         Answer |-> p.msg.Answer])
          /\ IF qi < Len(dnsRequest.Questions)
             THEN /\ response' = [response EXCEPT !.Answer = answers]
                  /\ SendSubQuery(dnsRequest, qi + 1, nQueries)
                  /\ UNCHANGED <<nSent, sentWire>>
             ELSE /\ SendResponse([response EXCEPT !.Answer = answers,
                                                   !.Header.ANCOUNT = Len(answers) % 65536])
                  /\ UNCHANGED <<qi, subQuery, nQueries>>

\* The upstream's reply r arrives and conn.ReadFromUDP(buffer) returns.
UpstreamReply(r) ==
  /\ pc = "upstream"
  /\ upstream = "query"
  /\ AfterRead(Received(r), FALSE)
  /\ UNCHANGED <<resolverArg, resolverFlag, datagram, dnsRequest, reqErr>>
  /\ UNCHANGED codecVars

\* conn.ReadFromUDP(buffer) returns an error (the upstream's port is closed and the
\* rejection comes back): buffer keeps its zeros.
UpstreamError ==
  /\ pc = "upstream"
  /\ upstream = "query"
  /\ AfterRead(Zeros(BufSize), TRUE)
  /\ UNCHANGED <<resolverArg, resolverFlag, datagram, dnsRequest, reqErr>>
  /\ UNCHANGED codecVars

\* The sub-query or its reply is lost, or the upstream never answers: the read has no
\* deadline, so conn.ReadFromUDP(buffer) does not return.
UpstreamLost ==
  /\ pc = "upstream"
  /\ upstream = "query"
  /\ upstream' = "lost"
  /\ UNCHANGED <<resolverArg, resolverFlag, pc, datagram, dnsRequest, reqErr, response, qi,
                 subQuery, nQueries, replies, nSent, sentWire>>
  /\ UNCHANGED codecVars

Next ==
  \/ \E d \in ClientDatagrams : Receive(d)
  \/ \E r \in UpstreamReplies : UpstreamReply(r)
  \/ UpstreamError
  \/ UpstreamLost

Spec == Init /\ [][Next]_vars

\* The server runs whenever it can: a step that is possible is eventually taken.
FairSpec == Spec /\ WF_vars(Next)

----------------------------------------------------------------------------
(* Properties *)

IsPointerAt(buf, k) == k + 2 <= Len(buf) /\ buf[k + 1] >= 192

PointerTarget(buf, k) == (buf[k + 1] % 64) * 256 + buf[k + 2]

\* The pointer at offset k points to itself, or to a pointer that points back to k.
PointerCycleAt(buf, k) ==
  /\ IsPointerAt(buf, k)
  /\ \/ PointerTarget(buf, k) = k
     \/ /\ IsPointerAt(buf, PointerTarget(buf, k))
        /\ PointerTarget(buf, PointerTarget(buf, k)) = k

\* C1: decoding a name that reaches a pointer which points to itself, or to a pointer
\* leading back to it, ends with an error (MalformedName): it never recurses without
\* bound.
C1_CycleDecodingFails ==
  (cpc = "parsed" /\ PointerCycleAt(cwire, 12)) =>
    (cname.st = "err" /\ cparsed.st = "err")

\* C2: when decoding the client's datagram fails, the server does not crash, and it
\* sends either nothing or a response whose RCODE is FORMERR (1), never a normal
\* response built from the partially decoded message.
C2_DecodeFailureNotAnswered ==
  reqErr =>
    /\ pc # "overflow"
    /\ nSent = 0 \/ parseHeader(sentWire).header.RCODE = 1

\* C3: in forward mode, whatever the outcome of each upstream exchange, the server
\* eventually sends exactly one response for the request and is back at reading the
\* next datagram.
C3_EveryRequestAnswered ==
  /\ [](nSent <= 1)
  /\ [](pc = "upstream" => <>(pc = "recv" /\ nSent = 1))

\* C4: with the resolver address empty or not given on the command line the server
\* is in local-synthesis mode: every request it decodes is answered from
\* generateResponse, and it never dials, sends a sub-query or waits on an upstream.
C4_NoResolverMeansLocal ==
  ((~resolverArg.given \/ resolverArg.value = "") /\ ~reqErr) =>
    /\ pc = "recv"
    /\ nQueries = 0
    /\ datagram # << >> => (nSent = 1 /\ response = generateResponse(dnsRequest))

\* C5: parsing the bytes of a well-formed message without compressed names succeeds and
\* gives the message back, field for field.
C5_RoundTrip ==
  (cpc = "parsed" /\ ckind = "msg") => cparsed = [st |-> "ok", msg |-> cmsg]

\* C6: the local-synthesis response copies ID, OPCODE, RD and RA from the request, has
\* QR=1, AA=TC=Z=0, NSCOUNT=ARCOUNT=0, RCODE 0 for OPCODE 0 and 4 otherwise, QDCOUNT and
\* ANCOUNT equal to the number of request questions, and one answer per question, in
\* order: the question's name, type 1, class 1, TTL 60, data 08 08 08 08.
C6_LocalSynthesis ==
  (pc = "recv" /\ nSent = 1 /\ resolverFlag = "") =>
    LET h == response.Header
        r == dnsRequest.Header
        n == Len(dnsRequest.Questions)
    IN /\ h.ID = r.ID /\ h.OPCODE = r.OPCODE /\ h.RD = r.RD /\ h.RA = r.RA
       /\ h.QR = 1 /\ h.AA = 0 /\ h.TC = 0 /\ h.Z = 0
       /\ h.NSCOUNT = 0 /\ h.ARCOUNT = 0
       /\ h.RCODE = (IF r.OPCODE = 0 THEN 0 ELSE 4)
       /\ h.QDCOUNT = n /\ h.ANCOUNT = n
       /\ Len(response.Answer) = n
       /\ \A i \in 1..n :
            response.Answer[i] =
              [Name |-> dnsRequest.Questions[i].Name, Type |-> 1, Class |-> 1,
               TTL |-> U32(0, 60), Length |-> 4, Data |-> << 8, 8, 8, 8 >>]
       /\ sentWire = MessageSerialize(response)

\* A request with two questions and a non-standard OPCODE has been answered locally.
C6_Witness ==
  /\ pc = "recv" /\ nSent = 1 /\ resolverFlag = ""
  /\ Len(dnsRequest.Questions) = 2
  /\ dnsRequest.Header.OPCODE = 1
  /\ dnsRequest.Header.RA = 1
  /\ dnsRequest.Header.Z = 5
  /\ ~reqErr

\* The first answer of every reply that decoded without error and holds an answer.
RECURSIVE ExpectedAnswers(_)
ExpectedAnswers(rs) ==
  IF Len(rs) = 0 THEN << >>
  ELSE (IF ~rs[1].readErr /\ rs[1].st = "ok" /\ Len(rs[1].Answer) > 0
        THEN << rs[1].Answer[1] >> ELSE << >>) \o ExpectedAnswers(Tail(rs))

\* C7: in forward mode the answers of the response are, in question order, the first
\* answer of each upstream reply that decoded successfully and has an answer; a failed
\* exchange or a reply that failed to decode contributes nothing; ANCOUNT is the
\* length of that list, at most QDCOUNT.
C7_AnswersMerged ==
  (pc = "recv" /\ nSent = 1 /\ resolverFlag # "") =>
    /\ response.Answer = ExpectedAnswers(replies)
    /\ response.Header.ANCOUNT = Len(response.Answer)
    /\ response.Header.ANCOUNT <= response.Header.QDCOUNT

\* C8: the questions of the response are the request's decoded questions: as many, in
\* the same order, each with its name, type and class unchanged.
C8_QuestionsEchoed ==
  (pc = "recv" /\ nSent = 1) => response.Questions = dnsRequest.Questions

\* The offset of the pointer that ends the name stored at off, or -1 when the name
\* ends in a zero octet or runs past the buffer.
RECURSIVE PointerOffset(_, _)
PointerOffset(buf, off) ==
  IF off >= Len(buf) THEN -1
  ELSE IF buf[off + 1] >= 192 THEN off
  ELSE IF buf[off + 1] = 0 THEN -1
  ELSE PointerOffset(buf, off + 1 + buf[off + 1])

\* C9: after a name that ends in a pointer at offset p the cursor is at p+2, so the
\* type and class of the question are the bytes right after the pointer, and the
\* next question is decoded from the bytes after those.
C9_CursorAfterPointer ==
  /\ (cpc = "parsed" /\ PointerOffset(cwire, 12) >= 0 /\ cname.st = "ok") =>
       LET p == PointerOffset(cwire, 12)
       IN /\ cname.pos = p + 2
          /\ p + 6 <= Len(cwire) =>
               /\ Len(cparsed.msg.Questions) >= 1
               /\ cparsed.msg.Questions[1].Type = Uint16At(cwire, p + 2)
               /\ cparsed.msg.Questions[1].Class = Uint16At(cwire, p + 4)
  /\ (cpc = "parsed" /\ cwire \in BackwardPointerBuffers /\ cparsed.st = "ok") =>
       /\ Len(cparsed.msg.Questions) = 2
       /\ cparsed.msg.Questions[2].Type = Uint16At(cwire, 21)
       /\ cparsed.msg.Questions[2].Class = Uint16At(cwire, 23)

NoRootName(m) ==
  /\ \A i \in 1..Len(m.Questions) : m.Questions[i].Name # NameRoot
  /\ \A i \in 1..Len(m.Answer) : m.Answer[i].Name # NameRoot

\* C10: parseDNSMessage returns an error for a buffer in which a declared field runs
\* past the end (every proper prefix of a well-formed message's bytes, also one that
\* holds some but not all of the last record's data), and no error for the bytes of a
\* well-formed message, also one that ends in a record with no data.
C10_TruncationDetected ==
  /\ (cpc = "parsed" /\ cwire \in TruncatedBuffers) => cparsed.st = "err"
  /\ (cpc = "parsed" /\ ckind = "msg" /\ NoRootName(cmsg)) => cparsed.st = "ok"

====
